---- MODULE Spec2Model ----
(***************************************************************************)
(* Model of Thunder/server/stream_routes.py: the link codec, the session   *)
(* load balancer, the range negotiator and the media_delivery /            *)
(* media_preview handlers with their workload accounting.                  *)
(*                                                                         *)
(* Text is modelled as sequences of one-character strings.  A coroutine    *)
(* runs atomically from one await to the next (single-threaded asyncio),   *)
(* so every action is one such segment of a handler.                       *)
(***************************************************************************)
EXTENDS Integers, Sequences, FiniteSets, TLC

\* ---------------------------------------------------------------- bounds
NumRequests == 2
NumSessions == 3

Requests == 1..NumRequests
Sessions == 1..NumSessions

\* ---------------------------------------------------- program constants
SECURE_HASH_LENGTH == 6
MAX_CONCURRENT_PER_CLIENT == 8

\* ------------------------------------------------------------- text
Digits == {"0", "1", "2", "3", "4", "5", "6", "7", "8", "9"}
Lower == {"a", "b", "c", "d", "e", "f", "g", "h", "i", "j", "k", "l", "m",
          "n", "o", "p", "q", "r", "s", "t", "u", "v", "w", "x", "y", "z"}
Upper == {"A", "B", "C", "D", "E", "F", "G", "H", "I", "J", "K", "L", "M",
          "N", "O", "P", "Q", "R", "S", "T", "U", "V", "W", "X", "Y", "Z"}
\* the class [a-zA-Z0-9_-] of PATTERN_HASH_FIRST and VALID_HASH_REGEX
HashChars == Lower \cup Upper \cup Digits \cup {"_", "-"}
\* what str.strip() removes
Whitespace == {" ", "\t"}

Min(a, b) == IF a <= b THEN a ELSE b

\* s[:n]
Take(s, n) == SubSeq(s, 1, Min(n, Len(s)))
\* s[n:] (n counted from 0)
Drop(s, n) == SubSeq(s, Min(n, Len(s)) + 1, Len(s))

\* length of the longest prefix of s made of characters of class
RECURSIVE SpanLen(_, _)
SpanLen(s, class) ==
    IF s = <<>> \/ Head(s) \notin class THEN 0
    ELSE 1 + SpanLen(Tail(s), class)

\* length of the longest suffix of s made of characters of class
RECURSIVE SpanLenRight(_, _)
SpanLenRight(s, class) ==
    IF s = <<>> \/ s[Len(s)] \notin class THEN 0
    ELSE 1 + SpanLenRight(SubSeq(s, 1, Len(s) - 1), class)

\* str.strip(chars)
Strip(s, class) ==
    LET l == SpanLen(s, class)
        t == Drop(s, l)
    IN  SubSeq(t, 1, Len(t) - SpanLenRight(t, class))

DigitVal(c) ==
    CASE c = "0" -> 0 [] c = "1" -> 1 [] c = "2" -> 2 [] c = "3" -> 3
      [] c = "4" -> 4 [] c = "5" -> 5 [] c = "6" -> 6 [] c = "7" -> 7
      [] c = "8" -> 8 [] c = "9" -> 9

\* int(s) for a non-empty string of digits
RECURSIVE ParseInt(_)
ParseInt(s) ==
    IF s = <<>> THEN 0
    ELSE 10 * ParseInt(SubSeq(s, 1, Len(s) - 1)) + DigitVal(s[Len(s)])

\* urllib.parse.unquote on the escapes the model's paths use
EscapeTable == [x \in {<<"2", "F">>, <<"2", "f">>, <<"2", "0">>} |->
                   IF x = <<"2", "0">> THEN " " ELSE "/"]

RECURSIVE unquote(_)
unquote(s) ==
    IF s = <<>> THEN <<>>
    ELSE IF Head(s) = "%" /\ Len(s) >= 3 /\ SubSeq(s, 2, 3) \in DOMAIN EscapeTable
         THEN <<EscapeTable[SubSeq(s, 2, 3)]>> \o unquote(Drop(s, 3))
         ELSE <<Head(s)>> \o unquote(Tail(s))

\* ------------------------------------------------------------ link codec
NoMatch == [matched |-> FALSE, g1 |-> <<>>, g2 |-> <<>>]

\* the tail (?:/.*)?$ of both path patterns
PathTailOk(rest) == rest = <<>> \/ Head(rest) = "/"

\* PATTERN_HASH_FIRST.match(p): group 1 the hash, group 2 the digits
PATTERN_HASH_FIRST(p) ==
    LET h == Take(p, SECURE_HASH_LENGTH)
        rest == Drop(p, SECURE_HASH_LENGTH)
        n == SpanLen(rest, Digits)
    IN  IF /\ Len(h) = SECURE_HASH_LENGTH
           /\ \A i \in 1..Len(h) : h[i] \in HashChars
           /\ n >= 1
           /\ PathTailOk(Drop(rest, n))
        THEN [matched |-> TRUE, g1 |-> h, g2 |-> Take(rest, n)]
        ELSE NoMatch

\* PATTERN_ID_FIRST.match(p): group 1 the digits
PATTERN_ID_FIRST(p) ==
    LET n == SpanLen(p, Digits)
    IN  IF n >= 1 /\ PathTailOk(Drop(p, n))
        THEN [matched |-> TRUE, g1 |-> Take(p, n), g2 |-> <<>>]
        ELSE NoMatch

\* (variant) the id-first shape is tried before the hash-first shape
parse_media_request_IdFirst(path, query) ==
    LET clean_path == Strip(unquote(path), {"/"})
        m1 == PATTERN_HASH_FIRST(clean_path)
        m2 == PATTERN_ID_FIRST(clean_path)
    IN  IF m2.matched
        THEN [ok |-> TRUE, message_id |-> ParseInt(m2.g1),
              secure_hash |-> Strip(query, Whitespace)]
        ELSE IF m1.matched
        THEN [ok |-> TRUE, message_id |-> ParseInt(m1.g2), secure_hash |-> m1.g1]
        ELSE [ok |-> FALSE, message_id |-> 0, secure_hash |-> <<>>]

\* parse_media_request(path, query); query is the value of query.get("hash", "").
\* ok = FALSE stands for raise InvalidHash("Invalid URL").
parse_media_request(path, query) ==
    LET clean_path == Strip(unquote(path), {"/"})
        m1 == PATTERN_HASH_FIRST(clean_path)
        m2 == PATTERN_ID_FIRST(clean_path)
    IN  IF m1.matched
        THEN [ok |-> TRUE, message_id |-> ParseInt(m1.g2), secure_hash |-> m1.g1]
        ELSE IF m2.matched
        THEN [ok |-> TRUE, message_id |-> ParseInt(m2.g1),
              secure_hash |-> Strip(query, Whitespace)]
        ELSE [ok |-> FALSE, message_id |-> 0, secure_hash |-> <<>>]

\* ------------------------------------------------------ range negotiator
BytesEq == <<"b", "y", "t", "e", "s", "=">>

\* request.headers.get("Range") when the header is missing
NoHeader == [present |-> FALSE, value |-> <<>>]
Header(v) == [present |-> TRUE, value |-> v]

\* (variant) the start group needs at least one digit
RANGE_REGEX_StartRequired(h) ==
    LET rest == Drop(h, Len(BytesEq))
        ns == SpanLen(rest, Digits)
        after == Drop(rest, ns)
    IN  IF /\ Take(h, Len(BytesEq)) = BytesEq
           /\ ns >= 1
           /\ after # <<>>
           /\ Head(after) = "-"
        THEN [matched |-> TRUE, g1 |-> Take(rest, ns),
              g2 |-> Take(Tail(after), SpanLen(Tail(after), Digits))]
        ELSE NoMatch

\* RANGE_REGEX.match(h): group 1 the start digits, group 2 the end digits
RANGE_REGEX(h) ==
    LET rest == Drop(h, Len(BytesEq))
        ns == SpanLen(rest, Digits)
        after == Drop(rest, ns)
    IN  IF /\ Take(h, Len(BytesEq)) = BytesEq
           /\ after # <<>>
           /\ Head(after) = "-"
        THEN [matched |-> TRUE, g1 |-> Take(rest, ns),
              g2 |-> Take(Tail(after), SpanLen(Tail(after), Digits))]
        ELSE NoMatch

\* parse_range_header(range_header, file_size).
\* ok = FALSE stands for raise web.HTTPBadRequest().
parse_range_header(range_header, file_size) ==
    IF ~range_header.present \/ range_header.value = <<>>
    THEN [ok |-> TRUE, start |-> 0, end |-> file_size - 1]
    ELSE LET match == RANGE_REGEX(range_header.value)
         IN  IF ~match.matched
             THEN [ok |-> FALSE, start |-> 0, end |-> 0]
             ELSE LET start == IF match.g1 # <<>> THEN ParseInt(match.g1) ELSE 0
                      end == IF match.g2 # <<>> THEN ParseInt(match.g2)
                             ELSE file_size - 1
                  IN  [ok |-> TRUE, start |-> start,
                       end |-> Min(end, file_size - 1)]

\* ------------------------------------------------- session load balancer
\* min(available, key=load): the first key, in the dict's order (session ids
\* ascending), among those of minimal load
FirstMin(w, keys) ==
    CHOOSE c \in keys :
        /\ \A d \in keys : w[c] <= w[d]
        /\ \A d \in keys : (w[d] = w[c]) => c <= d

\* (variant) the first session below the cap is taken, whatever its load
SelectFirstAvailable(w) ==
    LET available == {c \in DOMAIN w : w[c] < MAX_CONCURRENT_PER_CLIENT}
    IN  IF available # {} THEN CHOOSE c \in available : \A d \in available : c <= d
        ELSE FirstMin(w, DOMAIN w)

\* the client_id select_optimal_client() returns for a non-empty work_loads
select_optimal_client(w) ==
    LET available == {c \in DOMAIN w : w[c] < MAX_CONCURRENT_PER_CLIENT}
    IN  IF available # {} THEN FirstMin(w, available)
        ELSE FirstMin(w, DOMAIN w)

\* ByteStreamer(multi_clients[client_id]): a new object, unlike every cached one
NewByteStreamer(cache) ==
    IF DOMAIN cache = {} THEN 1
    ELSE 1 + (CHOOSE k \in {cache[d] : d \in DOMAIN cache} :
                  \A d \in DOMAIN cache : cache[d] <= k)

\* (variant) a new adapter is made on every call
get_streamer_Recreate(cache, c) ==
    [d \in DOMAIN cache \cup {c} |-> IF d = c THEN NewByteStreamer(cache) ELSE cache[d]]

\* get_streamer(client_id): the adapter cache after the call; the adapter it
\* returns is the entry of client_id
get_streamer(cache, c) ==
    IF c \notin DOMAIN cache
    THEN [d \in DOMAIN cache \cup {c} |->
              IF d = c THEN NewByteStreamer(cache) ELSE cache[d]]
    ELSE cache

\* ------------------------------------------------------------ responses
GenericText == "Link expired or invalid"
NoResponse == [status |-> 0, text |-> ""]

\* Thunder.server.exceptions: InvalidHash and FileNotFound are the error
\* kinds of the link codec and of the metadata checks, ordinary exceptions
\* that a handler has to map to an HTTP status itself
ServerExceptions == {"InvalidHash", "FileNotFound"}

\* What the client receives when exc leaves a handler: the server answers a
\* web.HTTPException with the status and text of that exception, any other
\* exception with 500, and a cancelled handler with nothing.
Surface(exc) ==
    CASE exc = "HTTPMethodNotAllowed" -> [status |-> 405, text |-> "405: Method Not Allowed"]
      [] exc = "HTTPInternalServerError" -> [status |-> 500, text |-> "No clients available"]
      [] exc = "HTTPBadRequest" -> [status |-> 400, text |-> "400: Bad Request"]
      [] exc = "HTTPForbidden" -> [status |-> 403, text |-> "403: Forbidden"]
      [] exc = "HTTPNotFound" -> [status |-> 404, text |-> GenericText]
      [] exc = "CancelledError" -> NoResponse
      [] exc \in ServerExceptions \cup {"Error"} ->
             [status |-> 500, text |-> "500 Internal Server Error"]

\* except Exception: every exception but CancelledError (a BaseException)
CaughtByExcept(exc) == exc # "CancelledError"

\* (variant) the except block reports a hash mismatch as 403
ExceptRaisesByKind(exc) == IF exc = "InvalidHash" THEN "HTTPForbidden" ELSE "HTTPNotFound"

\* the except block of media_delivery: what it raises in place of exc
ExceptRaises(exc) == "HTTPNotFound"

\* (variant) the except block forgets the counter
ExceptKeeps(w, c) == w

\* the except block of media_delivery: the counter after work_loads[client_id] -= 1
ExceptReleases(w, c) == [w EXCEPT ![c] = @ - 1]

\* the finally block of stream_generator: the counter after
\* work_loads[client_id] -= 1 (lines 186-187)
FinallyReleases(w, c) == [w EXCEPT ![c] = @ - 1]

\* (variant) the handler releases the counter on its way out as well, as a
\* finally clause on its try block would
ReturnReleases(w, c) == [w EXCEPT ![c] = @ - 1]

\* the handler's normal return leaves the counter to the body generator
ReturnKeeps(w, c) == w

\* the finally block of stream_generator: it runs when the generator ends or
\* is closed after it was started; a generator that was never started has
\* not entered its try block
FinallyRuns(g) == g \in {"awaiting", "yielded"}

\* (variant) the increment is left for later, after the first await
IncrementDeferred(w, c) == w

\* work_loads[client_id] += 1 (line 143)
Increment(w, c) == [w EXCEPT ![c] = @ + 1]

\* (variant) the length of the window taken as end - start
ContentLengthExclusive(start, end) == end - start

\* content_length = end - start + 1 (line 164)
ContentLength(start, end) == end - start + 1

\* the Content-Range header f"bytes {start}-{end}/{file_size}" (line 175)
ContentRange(start, end, file_size) == <<start, end, file_size>>

\* ---------------------------------------------------------- authorization
NoFileInfo == [found |-> FALSE, unique_id |-> <<>>, file_size |-> 0]
FileInfo(u, n) == [found |-> TRUE, unique_id |-> u, file_size |-> n]

\* (variant) unique_id.startswith(secure_hash)
HashIsPrefix(unique_id, hash) == Take(unique_id, Len(hash)) = hash

\* file_info["unique_id"][:SECURE_HASH_LENGTH] != secure_hash, negated
HashMatches(unique_id, hash) == Take(unique_id, SECURE_HASH_LENGTH) = hash

\* The handler from the return of get_file_info to its return or raise.
\* build_ok = FALSE stands for web.Response(...) raising.
\* Returns the exception raised in the try block, or "return".
Deliver(info, hash, range_header, build_ok) ==
    IF ~info.found \/ info.unique_id = <<>> THEN "FileNotFound"
    ELSE IF ~HashMatches(info.unique_id, hash) THEN "InvalidHash"
    ELSE IF info.file_size <= 0 THEN "FileNotFound"
    ELSE IF ~parse_range_header(range_header, info.file_size).ok THEN "HTTPBadRequest"
    ELSE IF ~build_ok THEN "Error"
    ELSE "return"

\* the branch of Deliver taken, for the record of why a request failed
DeliverCause(info, hash, range_header, build_ok) ==
    IF ~info.found \/ info.unique_id = <<>> THEN "absent"
    ELSE IF ~HashMatches(info.unique_id, hash) THEN "mismatch"
    ELSE IF info.file_size <= 0 THEN "size"
    ELSE IF ~parse_range_header(range_header, info.file_size).ok THEN "range"
    ELSE IF ~build_ok THEN "build"
    ELSE "none"

\* ------------------------------------------------------------ the inputs
Methods == {"GET", "HEAD"}

\* "abc12342", "42", "abc"
PathHashFirst == <<"a", "b", "c", "1", "2", "3", "4", "2">>
PathIdFirst == <<"4", "2">>
PathNoShape == <<"a", "b", "c">>
Paths == {PathHashFirst, PathIdFirst, PathNoShape}

\* query.get("hash", ""): no hash parameter, or hash=abc
Queries == {<<>>, <<"a", "b", "c">>}

\* what get_file_info may return: nothing, metadata without unique_id,
\* "abc123XYZ" of 5000 bytes or of 0 bytes, "xyz789QQ", and the short "abc"
UidLong == <<"a", "b", "c", "1", "2", "3", "X", "Y", "Z">>
UidOther == <<"x", "y", "z", "7", "8", "9", "Q", "Q">>
UidShort == <<"a", "b", "c">>
Metadata == {NoFileInfo, FileInfo(<<>>, 3), FileInfo(UidLong, 5000), FileInfo(UidLong, 0),
             FileInfo(UidOther, 3), FileInfo(UidShort, 3)}

\* no Range header, "bytes=1-", "bytes=abc-def"
RangeOpenEnd == <<"b", "y", "t", "e", "s", "=", "1", "-">>
RangeNoDigits == <<"b", "y", "t", "e", "s", "=", "a", "b", "c", "-", "d", "e", "f">>
RangeHeaders == {NoHeader, Header(RangeOpenEnd), Header(RangeNoDigits)}

\* ------------------------------------------------------------- the state
VARIABLES
    work_loads,    \* Thunder.bot.work_loads: session id -> in-flight streams
    streamers,     \* session id -> its cached ByteStreamer (the object's identity)
    endpoint,      \* per request: "none", "delivery" or "watch"
    pc,            \* per request: where its handler or its body stands
    client_id,     \* per request: the session it was bound to, 0 before
    message_id,    \* per request: locals of media_delivery
    secure_hash,
    file_info,
    window,        \* per request: <<start, end>> once negotiated
    req_range,     \* per request: request.headers.get("Range") once read
    gen,           \* per request: the state of its stream_generator()
    streamed,      \* per request: the arguments stream_file was invoked with
    response,      \* per request: what the client received
    cause,         \* per request: why it failed
    incs,          \* per request: by how much it raised its session's counter
    decs,          \* per request: by how much it lowered its session's counter
    arg,           \* the arguments of a helper called on its own
    result         \* what that call returned

shared == <<work_loads, streamers>>
locals == <<message_id, secure_hash, file_info, window, req_range>>
pure == <<arg, result>>
body == <<gen, streamed>>
account == <<incs, decs>>
vars == <<work_loads, streamers, endpoint, pc, client_id, message_id,
          secure_hash, file_info, window, req_range, gen, streamed, response,
          cause, incs, decs, arg, result>>

NoWindow == <<0, -1>>

\* the workload map of n sessions right after start-up
InitialLoads(n) == [c \in 1..n |-> 0]

\* no helper call on its own is under way
NoArg == [fn |-> "none"]
NoResult == [done |-> FALSE]

\* no request has arrived and no adapter is cached
Idle ==
    /\ streamers = <<>>
    /\ endpoint = [r \in Requests |-> "none"]
    /\ pc = [r \in Requests |-> "Received"]
    /\ client_id = [r \in Requests |-> 0]
    /\ message_id = [r \in Requests |-> 0]
    /\ secure_hash = [r \in Requests |-> <<>>]
    /\ file_info = [r \in Requests |-> NoFileInfo]
    /\ window = [r \in Requests |-> NoWindow]
    /\ req_range = [r \in Requests |-> NoHeader]
    /\ gen = [r \in Requests |-> "none"]
    /\ streamed = [r \in Requests |-> <<>>]
    /\ response = [r \in Requests |-> NoResponse]
    /\ cause = [r \in Requests |-> "none"]
    /\ incs = [r \in Requests |-> 0]
    /\ decs = [r \in Requests |-> 0]

Init ==
    /\ \E n \in 0..NumSessions : work_loads = InitialLoads(n)
    /\ Idle
    /\ arg = NoArg
    /\ result = NoResult

\* Request r arrives.  Requests are numbered in their order of arrival.
Arrives(r) ==
    /\ pc[r] = "Received"
    /\ \A q \in Requests : q < r => pc[q] # "Received"

\* the frame of the handler of r is gone: its locals are dropped
DropLocals(r) ==
    /\ message_id' = [message_id EXCEPT ![r] = 0]
    /\ secure_hash' = [secure_hash EXCEPT ![r] = <<>>]
    /\ file_info' = [file_info EXCEPT ![r] = NoFileInfo]
    /\ window' = [window EXCEPT ![r] = NoWindow]
    /\ req_range' = [req_range EXCEPT ![r] = NoHeader]

\* An exception leaves the handler of r before a session was bound.
Escape(r, exc, why) ==
    /\ pc' = [pc EXCEPT ![r] = "Failed"]
    /\ response' = [response EXCEPT ![r] = Surface(exc)]
    /\ cause' = [cause EXCEPT ![r] = why]
    /\ UNCHANGED <<pure, shared, client_id, locals, body, account>>

\* An exception is raised inside the try block of media_delivery (lines
\* 145-198) while r is bound: the except block runs if it catches it.
\* g is the state of the generator object of r at that moment ("none" when
\* stream_generator() was not called yet); the frame drops it.
RaiseInTry(r, exc, why, g) ==
    /\ pc' = [pc EXCEPT ![r] = "Failed"]
    /\ cause' = [cause EXCEPT ![r] = why]
    /\ LET c == client_id[r]
           w1 == IF CaughtByExcept(exc) THEN ExceptReleases(work_loads, c)
                 ELSE work_loads
           w2 == IF FinallyRuns(g) THEN FinallyReleases(w1, c) ELSE w1
       IN  /\ work_loads' = w2
           /\ decs' = [decs EXCEPT ![r] = @ + (work_loads[c] - w2[c])]
    /\ response' = [response EXCEPT ![r] =
                       IF CaughtByExcept(exc) THEN Surface(ExceptRaises(exc))
                       ELSE Surface(exc)]
    /\ DropLocals(r)
    /\ UNCHANGED <<pure, streamers, endpoint, client_id, body, incs>>

\* media_delivery from its entry to its first await (lines 133-150);
\* connected is what streamer.client.is_connected reads at line 147, a field
\* of the backend client that the backend library sets and clears
DeliveryBegin(r, method, path, query, connected) ==
    /\ Arrives(r)
    /\ endpoint' = [endpoint EXCEPT ![r] = "delivery"]
    /\ LET parsed == parse_media_request(path, query)
       IN  IF method = "HEAD" THEN Escape(r, "HTTPMethodNotAllowed", "head")
           ELSE IF ~parsed.ok THEN Escape(r, "InvalidHash", "decode")
           ELSE IF DOMAIN work_loads = {}
           THEN Escape(r, "HTTPInternalServerError", "no_clients")
           ELSE LET c == select_optimal_client(work_loads)
                IN  /\ streamers' = get_streamer(streamers, c)
                    /\ work_loads' = Increment(work_loads, c)
                    /\ incs' = [incs EXCEPT ![r] = @ + (work_loads'[c] - work_loads[c])]
                    /\ client_id' = [client_id EXCEPT ![r] = c]
                    /\ message_id' = [message_id EXCEPT ![r] = parsed.message_id]
                    /\ secure_hash' = [secure_hash EXCEPT ![r] = parsed.secure_hash]
                    /\ pc' = [pc EXCEPT ![r] =
                                 IF connected THEN "get_file_info" ELSE "start"]
                    /\ UNCHANGED <<pure, file_info, window, req_range, body,
                                   response, cause, decs>>

\* await streamer.client.start() returns (line 148)
StartReturn(r) ==
    /\ pc[r] = "start"
    /\ pc' = [pc EXCEPT ![r] = "get_file_info"]
    /\ UNCHANGED <<pure, shared, endpoint, client_id, locals, body, response, cause,
                   account>>

\* await streamer.client.start() raises (line 148)
StartRaise(r) ==
    /\ pc[r] = "start"
    /\ RaiseInTry(r, "Error", "connect", "none")

\* await streamer.get_file_info(message_id) raises (line 150)
FileInfoRaise(r) ==
    /\ pc[r] = "get_file_info"
    /\ RaiseInTry(r, "Error", "fetch", "none")

\* The request is cancelled while its handler is suspended at an await
\* (lines 148, 150): CancelledError is raised there.
Cancel(r) ==
    /\ pc[r] \in {"start", "get_file_info"}
    /\ RaiseInTry(r, "CancelledError", "cancelled", "none")

\* get_file_info returns and the handler runs to its return or raise
\* (lines 150-198)
FileInfoReturn(r, info, range_header, build_ok) ==
    /\ pc[r] = "get_file_info"
    /\ LET out == Deliver(info, secure_hash[r], range_header, build_ok)
           why == DeliverCause(info, secure_hash[r], range_header, build_ok)
           rng == parse_range_header(range_header, info.file_size)
       IN  IF out # "return"
           THEN RaiseInTry(r, out, why, IF why = "build" THEN "created" ELSE "none")
           ELSE /\ file_info' = [file_info EXCEPT ![r] = info]
                /\ window' = [window EXCEPT ![r] = <<rng.start, rng.end>>]
                /\ req_range' = [req_range EXCEPT ![r] = range_header]
                /\ gen' = [gen EXCEPT ![r] = "created"]
                /\ response' = [response EXCEPT ![r] =
                                   [status |-> 206, text |-> "",
                                    content_range |->
                                        ContentRange(rng.start, rng.end, info.file_size)]]
                /\ work_loads' = ReturnKeeps(work_loads, client_id[r])
                /\ decs' = [decs EXCEPT ![r] = @ + (work_loads[client_id[r]]
                                                    - work_loads'[client_id[r]])]
                /\ pc' = [pc EXCEPT ![r] = "Streaming"]
                /\ UNCHANGED <<pure, streamers, endpoint, client_id, message_id,
                               secure_hash, streamed, cause, incs>>

\* stream_generator of r ends or is closed: its finally block runs if the
\* generator was started (lines 178-187).  The response object is released
\* with its headers; its status stays on record.
GenClose(r, to, why) ==
    /\ gen' = [gen EXCEPT ![r] = "closed"]
    /\ pc' = [pc EXCEPT ![r] = to]
    /\ cause' = [cause EXCEPT ![r] = why]
    /\ work_loads' = IF FinallyRuns(gen[r])
                     THEN FinallyReleases(work_loads, client_id[r])
                     ELSE work_loads
    /\ decs' = [decs EXCEPT ![r] = @ + (work_loads[client_id[r]]
                                        - work_loads'[client_id[r]])]
    /\ DropLocals(r)
    /\ streamed' = [streamed EXCEPT ![r] = <<>>]
    /\ response' = [response EXCEPT ![r] = [status |-> @.status, text |-> @.text]]
    /\ UNCHANGED <<pure, streamers, endpoint, client_id, incs>>

\* The server asks the body for its next chunk: on the first pull the
\* generator starts and invokes stream_file (lines 180-184).
Pull(r) ==
    /\ pc[r] = "Streaming"
    /\ gen[r] \in {"created", "yielded"}
    /\ gen' = [gen EXCEPT ![r] = "awaiting"]
    /\ streamed' = [streamed EXCEPT ![r] =
                       IF gen[r] = "created"
                       THEN <<message_id[r], window[r][1],
                              ContentLength(window[r][1], window[r][2])>>
                       ELSE @]
    /\ UNCHANGED <<pure, shared, endpoint, pc, client_id, locals, response, cause,
                   account>>

\* stream_file produces a chunk and the generator yields it (line 185)
Chunk(r) ==
    /\ pc[r] = "Streaming"
    /\ gen[r] = "awaiting"
    /\ gen' = [gen EXCEPT ![r] = "yielded"]
    /\ UNCHANGED <<pure, shared, endpoint, pc, client_id, locals, streamed, response,
                   cause, account>>

\* stream_file is exhausted: the generator runs to its end
StreamEnd(r) ==
    /\ pc[r] = "Streaming"
    /\ gen[r] = "awaiting"
    /\ GenClose(r, "Done", "none")

\* stream_file raises mid-stream
StreamRaise(r) ==
    /\ pc[r] = "Streaming"
    /\ gen[r] = "awaiting"
    /\ GenClose(r, "Failed", "stream_error")

\* The client disconnects after the 206 response was returned: the body is
\* abandoned and its generator is closed, wherever it stands.
Disconnect(r) ==
    /\ pc[r] = "Streaming"
    /\ GenClose(r, "Failed", "disconnect")

\* media_preview from its entry to its await (lines 118-122)
PreviewBegin(r, path, query) ==
    /\ Arrives(r)
    /\ endpoint' = [endpoint EXCEPT ![r] = "watch"]
    /\ LET parsed == parse_media_request(path, query)
       IN  IF ~parsed.ok THEN Escape(r, "InvalidHash", "decode")
           ELSE /\ message_id' = [message_id EXCEPT ![r] = parsed.message_id]
                /\ secure_hash' = [secure_hash EXCEPT ![r] = parsed.secure_hash]
                /\ pc' = [pc EXCEPT ![r] = "render_page"]
                /\ UNCHANGED <<pure, shared, client_id, file_info, window,
                               req_range, body, response, cause, account>>

\* render_page returns the HTML (lines 122-127) or raises
PreviewEnd(r, ok) ==
    /\ pc[r] = "render_page"
    /\ pc' = [pc EXCEPT ![r] = IF ok THEN "Done" ELSE "Failed"]
    /\ response' = [response EXCEPT ![r] =
                       IF ok THEN [status |-> 200, text |-> "html"]
                       ELSE Surface("Error")]
    /\ cause' = [cause EXCEPT ![r] = IF ok THEN "none" ELSE "render"]
    /\ DropLocals(r)
    /\ UNCHANGED <<pure, shared, endpoint, client_id, body, account>>

\* An input the code does not read on a path is not enumerated there: the
\* path is read at line 139 (after the HEAD check), the hash parameter at line
\* 57 (id-first links only), the Range header at line 162 (after the metadata
\* checks) and the response is built at line 189 (after the range is parsed).
PathsRead(method) == IF method = "HEAD" THEN {PathNoShape} ELSE Paths
QueriesRead(method, path) ==
    LET clean_path == Strip(unquote(path), {"/"})
    IN  IF /\ method # "HEAD"
           /\ ~PATTERN_HASH_FIRST(clean_path).matched
           /\ PATTERN_ID_FIRST(clean_path).matched
        THEN Queries ELSE {<<>>}
HeadersRead(info, hash) ==
    IF Deliver(info, hash, NoHeader, TRUE) = "return" THEN RangeHeaders ELSE {NoHeader}
BuildsRead(info, hash, range_header) ==
    IF Deliver(info, hash, range_header, TRUE) = "return" THEN BOOLEAN ELSE {TRUE}

Next ==
    \/ \E r \in Requests, m \in Methods : \E p \in PathsRead(m) :
           \E q \in QueriesRead(m, p), c \in BOOLEAN : DeliveryBegin(r, m, p, q, c)
    \/ \E r \in Requests : StartReturn(r)
    \/ \E r \in Requests : StartRaise(r)
    \/ \E r \in Requests, i \in Metadata : \E h \in HeadersRead(i, secure_hash[r]) :
           \E b \in BuildsRead(i, secure_hash[r], h) : FileInfoReturn(r, i, h, b)
    \/ \E r \in Requests : FileInfoRaise(r)
    \/ \E r \in Requests : Cancel(r)
    \/ \E r \in Requests : Pull(r)
    \/ \E r \in Requests : Chunk(r)
    \/ \E r \in Requests : StreamEnd(r)
    \/ \E r \in Requests : StreamRaise(r)
    \/ \E r \in Requests : Disconnect(r)
    \/ \E r \in Requests, p \in Paths : \E q \in QueriesRead("GET", p) :
           PreviewBegin(r, p, q)
    \/ \E r \in Requests, ok \in BOOLEAN : PreviewEnd(r, ok)

Spec == Init /\ [][Next]_vars

\* The server under load: streams of earlier requests, still being served,
\* hold the first k sessions at the cap and the others one below it.
BusyLoads(k) ==
    [c \in 1..NumSessions |-> IF c <= k THEN MAX_CONCURRENT_PER_CLIENT
                              ELSE MAX_CONCURRENT_PER_CLIENT - 1]

InitBusy ==
    /\ \E k \in (NumSessions - 2)..NumSessions : work_loads = BusyLoads(k)
    /\ Idle
    /\ arg = NoArg
    /\ result = NoResult

SpecBusy == InitBusy /\ [][Next]_vars

\* ------------------------------------------- the helpers on their own
\* all texts of at most n characters of alphabet
Texts(alphabet, n) == UNION {[1..k -> alphabet] : k \in 0..n}

\* Every variable of the requests and of the cache stays as it is.
HelperFrame == UNCHANGED <<shared, endpoint, pc, client_id, locals, body, response,
                          cause, account>>

\* The link codec: paths of a digit, a letter and "/", and two escaped
\* paths, "%2Fabc12342" and "42%2F"; the hash parameter missing, " ab " or "a!".
MaxPathLen == 8
PathEscapedHashFirst == <<"%", "2", "F">> \o PathHashFirst
PathEscapedIdFirst == PathIdFirst \o <<"%", "2", "F">>
CodecPaths == Texts({"1", "a", "/"}, MaxPathLen)
                  \cup {PathEscapedHashFirst, PathEscapedIdFirst}
CodecQueries == {<<>>, <<" ", "a", "b", " ">>, <<"a", "!">>}

InitCodec ==
    /\ work_loads = InitialLoads(0)
    /\ Idle
    /\ \E p \in CodecPaths, q \in CodecQueries :
           arg = [fn |-> "parse_media_request", path |-> p, query |-> q]
    /\ result = NoResult

\* parse_media_request(path, query) is called (lines 48-59)
Decode ==
    /\ arg.fn = "parse_media_request"
    /\ ~result.done
    /\ result' = [done |-> TRUE, val |-> parse_media_request(arg.path, arg.query)]
    /\ UNCHANGED arg
    /\ HelperFrame

NextCodec == Decode

SpecCodec == InitCodec /\ [][NextCodec]_vars

\* The range negotiator: no header, or a header of "bytes=" and a tail of
\* digits, "-" and a letter, or such a tail alone; three total sizes.
MaxRangeLen == 4
RangeTails == Texts({"0", "2", "5", "-", "a"}, MaxRangeLen)
RangeValues == {NoHeader} \cup {Header(BytesEq \o t) : t \in RangeTails}
                   \cup {Header(t) : t \in RangeTails}
FileSizes == {1, 3, 1000}

InitRange ==
    /\ work_loads = InitialLoads(0)
    /\ Idle
    /\ \E h \in RangeValues, n \in FileSizes :
           arg = [fn |-> "parse_range_header", range_header |-> h, file_size |-> n]
    /\ result = NoResult

\* parse_range_header(range_header, file_size) is called (lines 75-85)
Negotiate ==
    /\ arg.fn = "parse_range_header"
    /\ ~result.done
    /\ result' = [done |-> TRUE,
                  val |-> parse_range_header(arg.range_header, arg.file_size)]
    /\ UNCHANGED arg
    /\ HelperFrame

NextRange == Negotiate

SpecRange == InitRange /\ [][NextRange]_vars

\* The balancer: every workload map of 1..NumSessions sessions with loads
\* up to MaxLoad, which lies above the cap.
MaxLoad == 9

InitSelect ==
    /\ \E n \in 1..NumSessions : work_loads \in [1..n -> 0..MaxLoad]
    /\ Idle
    /\ arg = [fn |-> "select_optimal_client"]
    /\ result = NoResult

\* select_optimal_client() is called (lines 62-72); it ends in get_streamer
Select ==
    /\ arg.fn = "select_optimal_client"
    /\ ~result.done
    /\ LET c == select_optimal_client(work_loads)
       IN  /\ result' = [done |-> TRUE, val |-> c]
           /\ streamers' = get_streamer(streamers, c)
    /\ UNCHANGED <<arg, work_loads, endpoint, pc, client_id, locals, body, response,
                   cause, account>>

NextSelect == Select

SpecSelect == InitSelect /\ [][NextSelect]_vars

\* =============================================================== claims
Finished(r) == pc[r] \in {"Done", "Failed"}
InFlight(r) == pc[r] \in {"start", "get_file_info", "Streaming"}
\* r reached SessionBound
Bound(r) == client_id[r] # 0

\* the failures of the try block that are exceptions (not cancellation)
RaisedCauses == {"connect", "fetch", "absent", "mismatch", "size", "range", "build"}

\* C1: every request that was bound to a session has, once Done or Failed,
\* lowered its session's counter exactly as often as it raised it (once), and
\* with no delivery in flight every counter is back at 0.
C1_Balanced ==
    /\ \A r \in Requests : (Finished(r) /\ Bound(r)) => (incs[r] = 1 /\ decs[r] = incs[r])
    /\ (\A r \in Requests : ~InFlight(r)) => \A c \in DOMAIN work_loads : work_loads[c] = 0

\* C2: every request whose handler returned the 206 response has lowered its
\* session's counter exactly once when the production of its body has ended:
\* the stream ran to completion, raised, or the client disconnected at any
\* point (also before the first chunk was pulled).
C2_BodyReleasesOnce ==
    \A r \in Requests : (response[r].status = 206 /\ Finished(r)) => decs[r] = 1

\* C3: a request that failed on an exception after the increment and before
\* the 206 response was returned (connect, metadata fetch, absent metadata,
\* hash mismatch, size <= 0, response construction) has lowered the counter
\* exactly once by the time its error response is out, the generator's
\* finally block included.
C3_ExceptReleasesOnce ==
    \A r \in Requests :
        (endpoint[r] = "delivery" /\ cause[r] \in RaisedCauses)
            => /\ pc[r] = "Failed"
               /\ response[r] # NoResponse
               /\ response[r].status # 206
               /\ incs[r] = 1
               /\ decs[r] = 1

C3_Witness ==
    \E r, q \in Requests : cause[r] = "build" /\ cause[q] = "connect" /\ decs[r] = 1

\* C4: a request cancelled while suspended at the connect step or at the
\* metadata fetch has still lowered its session's counter exactly once.
C4_CancelReleases ==
    \A r \in Requests : cause[r] = "cancelled" => decs[r] = 1

\* C5: every workload counter is a non-negative integer and no request lowers
\* its session's counter more than once.
C5_NonNegative ==
    /\ \A c \in DOMAIN work_loads : work_loads[c] \in Nat
    /\ \A r \in Requests : decs[r] \in {0, 1} /\ decs[r] <= incs[r]

C5_Witness ==
    \E r, q \in Requests :
        /\ r # q
        /\ client_id[r] = client_id[q]
        /\ pc[r] = "Done" /\ decs[r] = 1
        /\ cause[q] = "build" /\ decs[q] = 1
        /\ work_loads[client_id[r]] = 0

\* C6 (frame part): a request that fails before a session is bound leaves
\* every counter and the adapter cache unchanged, and a failing bound request
\* changes no counter but that of its own session.
C6_Frame ==
    \A r \in Requests :
        (pc[r] # "Failed" /\ pc'[r] = "Failed" /\ endpoint'[r] = "delivery")
            => IF client_id[r] = 0
               THEN UNCHANGED <<work_loads, streamers>>
               ELSE \A c \in DOMAIN work_loads :
                        c # client_id[r] => work_loads'[c] = work_loads[c]

\* C6: a failed delivery request has lowered a counter if and only if it was
\* bound to a session, together with the frame part above.
C6_ReleaseIffBound ==
    /\ [](\A r \in Requests :
              (pc[r] = "Failed" /\ endpoint[r] = "delivery")
                  => ((decs[r] > 0) <=> Bound(r)))
    /\ [][C6_Frame]_vars

\* C7: a request with valid metadata and a matching hash whose Range header
\* is outside the grammar is answered with a 400-class status, and its
\* session's counter is released.
C7_MalformedRangeIs400 ==
    \A r \in Requests :
        cause[r] = "range"
            => /\ response[r].status \in 400..499
               /\ response[r].status # 404
               /\ decs[r] = 1

\* C8: on the delivery and on the preview endpoint, a link that fails to
\* decode is answered with the generic 404.
C8_DecodeFailureIs404 ==
    \A r \in Requests :
        cause[r] = "decode" => response[r] = [status |-> 404, text |-> GenericText]

\* C9: a request whose object is absent and a request whose object exists
\* under another unique_id prefix receive the same response (404, generic
\* text) and have the same net effect on the counters.
C9_AbsentLikeMismatch ==
    \A r, q \in Requests :
        (cause[r] = "absent" /\ cause[q] = "mismatch")
            => /\ response[r] = response[q]
               /\ response[r] = [status |-> 404, text |-> GenericText]
               /\ incs[r] - decs[r] = incs[q] - decs[q]

C9_Witness ==
    \E r, q \in Requests : cause[r] = "absent" /\ cause[q] = "mismatch"

Decoded == arg.fn = "parse_media_request" /\ result.done

AllIn(t, class) == \A i \in 1..Len(t) : t[i] \in class

\* C11: an id-first path of digits only, of any length >= 1, with hash=h
\* decodes to (int(n), h stripped of surrounding whitespace).
C11_IdFirstAnyLength ==
    (Decoded /\ Len(arg.path) >= 1 /\ AllIn(arg.path, Digits))
        => result.val = [ok |-> TRUE, message_id |-> ParseInt(arg.path),
                         secure_hash |-> Strip(arg.query, Whitespace)]

\* C12: parse_media_request fails when the path has neither shape, and never
\* returns a hash that is empty or has a character outside [A-Za-z0-9_-].
C12_RejectsBadHash ==
    Decoded
        => LET clean_path == Strip(unquote(arg.path), {"/"})
           IN  /\ (~PATTERN_HASH_FIRST(clean_path).matched
                       /\ ~PATTERN_ID_FIRST(clean_path).matched) => ~result.val.ok
               /\ result.val.ok
                      => /\ result.val.secure_hash # <<>>
                         /\ AllIn(result.val.secure_hash, HashChars)

Negotiated == arg.fn = "parse_range_header" /\ result.done

\* the header's value begins with "bytes=-": the start is omitted
StartOmitted ==
    /\ arg.range_header.present
    /\ Take(arg.range_header.value, Len(BytesEq) + 1) = BytesEq \o <<"-">>

\* C14: every accepted Range header gives, for every total size > 0, a pair
\* with 0 <= start <= end <= total - 1.
C14_WindowInside ==
    (Negotiated /\ result.val.ok)
        => /\ 0 <= result.val.start
           /\ result.val.start <= result.val.end
           /\ result.val.end <= arg.file_size - 1

\* C15 as stated: a Range header with the start omitted (bytes=-200 against
\* 1000) is refused as malformed and gives no window.
C15_StartOmittedFails ==
    (Negotiated /\ StartOmitted) => ~result.val.ok

\* C15 as amended: a Range header with the start omitted is accepted, its
\* start is 0 and its end is the given end clamped to total - 1 (total - 1
\* when the end is omitted too); bytes=-200 against 1000 gives (0, 200) and
\* not the suffix window (800, 999).
C15_StartOmittedFromZero ==
    (Negotiated /\ StartOmitted)
        => LET rest == Drop(arg.range_header.value, Len(BytesEq) + 1)
               d == Take(rest, SpanLen(rest, Digits))
               last == arg.file_size - 1
           IN  /\ result.val.ok
               /\ result.val.start = 0
               /\ result.val.end = IF d = <<>> THEN last ELSE Min(ParseInt(d), last)
               /\ (d = <<"2", "0", "0">> /\ arg.file_size = 1000)
                      => /\ <<result.val.start, result.val.end>> = <<0, 200>>
                         /\ <<result.val.start, result.val.end>> # <<800, 999>>

C15_Witness ==
    /\ Negotiated
    /\ arg.range_header = Header(BytesEq \o <<"-", "2", "0", "0">>)
    /\ arg.file_size = 1000
    /\ result.val = [ok |-> TRUE, start |-> 0, end |-> 200]

\* the call of select_optimal_client has returned
Selected == arg.fn = "select_optimal_client" /\ result.done

\* the sessions of least load among keys
LeastLoaded(keys) == {c \in keys : \A d \in keys : work_loads[c] <= work_loads[d]}

\* the sessions whose load is below the cap
BelowCap == {c \in DOMAIN work_loads : work_loads[c] < MAX_CONCURRENT_PER_CLIENT}

\* C16: for a non-empty workload map select_optimal_client returns a session
\* of least load among those below the cap, never one at or above the cap,
\* when there is one below the cap, and a session of least load among all
\* otherwise; (3, 8, 8) gives the first session and so does (8, 9).
C16_SelectsLeastLoaded ==
    Selected
        => /\ BelowCap # {} => result.val \in LeastLoaded(BelowCap)
           /\ BelowCap = {} => result.val \in LeastLoaded(DOMAIN work_loads)
           /\ work_loads = <<3, 8, 8>> => result.val = 1
           /\ work_loads = <<8, 9>> => result.val = 1

C16_Witness ==
    /\ Selected
    /\ work_loads = <<8, 9>>
    /\ result.val = 1
    /\ DOMAIN streamers = {1}

\* C17: while a delivery that succeeded is being served its status is 206,
\* its Content-Range names the negotiated window and the total, and the
\* backend stream, once opened, has offset = start and limit = end - start + 1;
\* without a Range header a file of 5000 bytes gives 0-4999/5000 and a
\* window of 5000 bytes.
C17_PartialContent ==
    \A r \in Requests :
        pc[r] = "Streaming"
            => LET total == file_info[r].file_size
                   negotiated == parse_range_header(req_range[r], total)
                   start == window[r][1]
                   end == window[r][2]
               IN  /\ response[r].status = 206
                   /\ negotiated.ok
                   /\ <<start, end>> = <<negotiated.start, negotiated.end>>
                   /\ response[r].content_range = <<start, end, total>>
                   /\ streamed[r] # <<>>
                          => streamed[r] = <<message_id[r], start, end - start + 1>>
                   /\ (req_range[r] = NoHeader /\ total = 5000)
                          => /\ response[r].content_range = <<0, 4999, 5000>>
                             /\ streamed[r] # <<>> => streamed[r][3] = 5000

C17_Witness ==
    \E r \in Requests :
        /\ pc[r] = "Streaming"
        /\ req_range[r] = NoHeader
        /\ response[r] = [status |-> 206, text |-> "", content_range |-> <<0, 4999, 5000>>]
        /\ streamed[r] = <<message_id[r], 0, 5000>>

\* C18: the step that binds a request to a session is taken from the arrival
\* of the request, before any await of it, and in that one step the session
\* it takes has the least load of those below the cap (of all, if none is
\* below) in the workloads as every request bound earlier left them, and
\* exactly that session's workload goes up by one.
C18_SelectThenIncrement ==
    [][\A r \in Requests :
           (client_id[r] = 0 /\ client_id'[r] # 0)
               => LET c == client_id'[r]
                  IN  /\ pc[r] = "Received"
                      /\ c \in DOMAIN work_loads
                      /\ BelowCap # {} => c \in LeastLoaded(BelowCap)
                      /\ BelowCap = {} => c \in LeastLoaded(DOMAIN work_loads)
                      /\ work_loads' = [work_loads EXCEPT ![c] = @ + 1]]_vars

\* the first request took the only session below the cap and is still inside
\* start(); the second, with every session at the cap, took the first one
C18_Witness ==
    /\ client_id[1] = NumSessions
    /\ pc[1] = "start"
    /\ client_id[2] = 1
    /\ work_loads[NumSessions] = MAX_CONCURRENT_PER_CLIENT
    /\ work_loads[1] = MAX_CONCURRENT_PER_CLIENT + 1

\* C19: an adapter cached for a session stays cached and stays the same
\* adapter in every step, also when a later request selects that session
\* while an earlier one is still in flight: no session gets a second adapter.
C19_AdapterKept ==
    [][\A c \in DOMAIN streamers :
           /\ c \in DOMAIN streamers'
           /\ streamers'[c] = streamers[c]]_vars

C19_Witness ==
    /\ client_id[1] = 1
    /\ client_id[2] = 1
    /\ pc[1] \in {"start", "get_file_info"}
    /\ pc[2] \in {"start", "get_file_info"}
    /\ DOMAIN streamers = {1}

\* C20: no two requests bound to the same session are both inside
\* client.start() at once.
C20_OneStartPerSession ==
    \A r1, r2 \in Requests :
        (r1 # r2 /\ pc[r1] = "start" /\ pc[r2] = "start")
            => client_id[r1] # client_id[r2]
====
